---- MODULE Spec2Model ----
(***************************************************************************)
(* SipHash (src/siphash.py, src/util.py): the SipHash class with its       *)
(* memoised get_hash, hexdigest, and the helpers big_to_little8 and rotl8. *)
(*                                                                         *)
(* Python integers are unbounded, so an int is modelled as the sequence of *)
(* its base-256 digits, least significant first, with no most significant *)
(* zero digit (0 is the empty sequence).  A value is below 2^64 exactly    *)
(* when it has at most 8 digits; nothing in the representation forces it. *)
(* A bytes object is the sequence of its bytes in memory order.            *)
(***************************************************************************)
EXTENDS Integers, Sequences, FiniteSets, TLC

VARIABLES
    key,        \* self.key
    message,    \* self.message
    c,          \* self.c
    d,          \* self.d
    hash,       \* self.hash: None or Some(int)
    threads,    \* the callers sharing the instance
    pc,         \* per caller: the line it is about to execute
    method,     \* per caller: the public method it called
    calls,      \* per caller: calls started so far
    k,          \* per caller: local (k0, k1) of get_hash
    v,          \* per caller: local (v0, v1, v2, v3)
    words,      \* per caller: local words of _compress
    wi,         \* per caller: index of the word the for loop of _compress holds
    ri,         \* per caller: iterations started by the current range() loop
    line,       \* per caller: the line of _sipround about to run (0: not inside)
    result,     \* per caller: what its last call returned or raised
    log,        \* per caller: history of the operations _compress performed
    entered,    \* history: how many times the compute branch was entered
    writes,     \* history: the values assigned to self.hash, in order
    wMsg,       \* argument of a direct _message_to_words call
    wBuf,       \* its padded buffer
    wWords,     \* its return value
    wDone,      \* whether the call has returned
    hxDigest,   \* a value get_hash() returns to line 66
    hxStr,      \* what line 66 makes of it
    hxDone      \* whether line 66 has run on it

vars == <<key, message, c, d, hash, threads, pc, method, calls, k, v, words, wi,
          ri, line, result, log, entered, writes, wMsg, wBuf, wWords, wDone,
          hxDigest, hxStr, hxDone>>

instance == <<key, message, c, d>>
locals == <<k, v, words, wi, ri, line, log>>
direct == <<wMsg, wBuf, wWords, wDone, hxDigest, hxStr, hxDone>>

----------------------------------------------------------------------------
(* Bounds of the model. *)

MaxCalls == 3
MaxMsgLen == 17

----------------------------------------------------------------------------
(* Python int arithmetic on digit sequences. *)

Max(x, y) == IF x >= y THEN x ELSE y
Min(x, y) == IF x <= y THEN x ELSE y

\* The number of digits of a up to its most significant non-zero digit.
RECURSIVE Digits(_, _)
Digits(a, n) ==
    IF n = 0 THEN 0
    ELSE IF a[n] = 0 THEN Digits(a, n - 1)
    ELSE n

Norm(a) == SubSeq(a, 1, Digits(a, Len(a)))

Digit(a, i) == IF i >= 1 /\ i <= Len(a) THEN a[i] ELSE 0

\* The int written as big-endian bytes in the source of a literal.
FromBE(bytes) == Norm([i \in 1..Len(bytes) |-> bytes[Len(bytes) + 1 - i]])

RECURSIVE BitsXor(_, _, _)
BitsXor(x, y, n) ==
    IF n = 0 THEN 0
    ELSE ((x + y) % 2) + 2 * BitsXor(x \div 2, y \div 2, n - 1)

RECURSIVE BitsAnd(_, _, _)
BitsAnd(x, y, n) ==
    IF n = 0 THEN 0
    ELSE ((x % 2) * (y % 2)) + 2 * BitsAnd(x \div 2, y \div 2, n - 1)

RECURSIVE BitsOr(_, _, _)
BitsOr(x, y, n) ==
    IF n = 0 THEN 0
    ELSE Max(x % 2, y % 2) + 2 * BitsOr(x \div 2, y \div 2, n - 1)

NibXor == [x \in 0..15 |-> [y \in 0..15 |-> BitsXor(x, y, 4)]]
NibAnd == [x \in 0..15 |-> [y \in 0..15 |-> BitsAnd(x, y, 4)]]
NibOr == [x \in 0..15 |-> [y \in 0..15 |-> BitsOr(x, y, 4)]]

ByteXor(x, y) == 16 * NibXor[x \div 16][y \div 16] + NibXor[x % 16][y % 16]
ByteAnd(x, y) == 16 * NibAnd[x \div 16][y \div 16] + NibAnd[x % 16][y % 16]
ByteOr(x, y) == 16 * NibOr[x \div 16][y \div 16] + NibOr[x % 16][y % 16]

\* a ^ b
IntXor(a, b) ==
    Norm([i \in 1..Max(Len(a), Len(b)) |-> ByteXor(Digit(a, i), Digit(b, i))])

\* a & b
IntAnd(a, b) ==
    Norm([i \in 1..Min(Len(a), Len(b)) |-> ByteAnd(a[i], b[i])])

\* a | b
IntOr(a, b) ==
    Norm([i \in 1..Max(Len(a), Len(b)) |-> ByteOr(Digit(a, i), Digit(b, i))])

RECURSIVE AddFrom(_, _, _, _)
AddFrom(a, b, i, carry) ==
    IF i > Max(Len(a), Len(b))
    THEN IF carry = 0 THEN <<>> ELSE <<carry>>
    ELSE LET s == Digit(a, i) + Digit(b, i) + carry
         IN  <<s % 256>> \o AddFrom(a, b, i + 1, s \div 256)

\* a + b, unbounded
IntAdd(a, b) == Norm(AddFrom(a, b, 1, 0))

\* a << n, unbounded
IntShl(a, n) ==
    LET q == n \div 8
        r == n % 8
    IN  Norm([i \in 1..(Len(a) + q + 1) |->
               IF i <= q THEN 0
               ELSE ((Digit(a, i - q) * (2 ^ r)) % 256)
                    + (Digit(a, i - q - 1) \div (2 ^ (8 - r)))])

\* a >> n
IntShr(a, n) ==
    LET q == n \div 8
        r == n % 8
    IN  Norm([i \in 1..(Len(a) - q) |->
               (Digit(a, i + q) \div (2 ^ r))
               + ((Digit(a, i + q + 1) % (2 ^ r)) * (2 ^ (8 - r)))])

\* the literal 0xffffffffffffffff
MASK64 == <<255, 255, 255, 255, 255, 255, 255, 255>>

\* int.to_bytes(length, 'big') raises OverflowError when the value does not fit
ToBytesOverflowsNever(num, length) == FALSE
ToBytesOverflows(num, length) == Len(num) > length

\* int.to_bytes(length, 'big') of a value that fits
to_bytes_big(num, length) == [i \in 1..length |-> Digit(num, length + 1 - i)]

\* int.from_bytes(bytes, 'little')
from_bytes_big(bytes) == FromBE(bytes)
from_bytes_little(bytes) == Norm(bytes)

----------------------------------------------------------------------------
(* src/util.py *)

big_to_little8_raises(num) == ToBytesOverflows(num, 8)
big_to_little8(num) == from_bytes_little(to_bytes_big(num, 8))

rotl8_shift_only(num, bits) == IntAnd(IntShl(num, bits), MASK64)
rotl8(num, bits) ==
    IntOr(IntAnd(IntShl(num, bits), MASK64), IntShr(num, 64 - bits))

----------------------------------------------------------------------------
(* src/siphash.py: the pure helpers of SipHash. *)

_encode_key_raises(kk) ==
    \/ big_to_little8_raises(IntShr(kk, 8 * 8))
    \/ big_to_little8_raises(IntAnd(kk, MASK64))

_encode_key(kk) ==
    <<big_to_little8(IntShr(kk, 8 * 8)), big_to_little8(IntAnd(kk, MASK64))>>

c1 == FromBE(<<\h73, \h6f, \h6d, \h65, \h70, \h73, \h65, \h75>>)
c2 == FromBE(<<\h64, \h6f, \h72, \h61, \h6e, \h64, \h6f, \h6d>>)
c3 == FromBE(<<\h6c, \h79, \h67, \h65, \h6e, \h65, \h72, \h61>>)
c4 == FromBE(<<\h74, \h65, \h64, \h62, \h79, \h74, \h65, \h73>>)

_initialise_internal_state(k0, k1) ==
    <<IntXor(k0, c1), IntXor(k1, c2), IntXor(k0, c3), IntXor(k1, c4)>>

padding_length(message_length) == (message_length + 1) % 8

\* line 153: the message, the zero bytes, the length byte
PaddedMessage(m) ==
    m \o [i \in 1..padding_length(Len(m)) |-> 0] \o <<Len(m) % 256>>

\* line 154: message[i: i + 8] for i in range(0, len(message), 8)
Chunks(m) ==
    [j \in 1..((Len(m) + 7) \div 8) |->
        SubSeq(m, 8 * (j - 1) + 1, Min(8 * j, Len(m)))]

WordsOfBig(m) == [j \in 1..Len(Chunks(m)) |-> from_bytes_big(Chunks(m)[j])]
WordsOf(m) == [j \in 1..Len(Chunks(m)) |-> from_bytes_little(Chunks(m)[j])]

_message_to_words(m) == WordsOf(PaddedMessage(m))

\* (a + b) & 0xffffffffffffffff
AddUnmasked(a, b) == IntAdd(a, b)
AddMasked(a, b) == IntAnd(IntAdd(a, b), MASK64)

\* One line of _sipround: line n of its body (1: line 172, ..., 14: line 185).

SipLine(n, s) ==
    CASE n = 1 -> <<AddMasked(s[1], s[2]), s[2], s[3], s[4]>>
      [] n = 2 -> <<s[1], rotl8(s[2], 13), s[3], s[4]>>
      [] n = 3 -> <<s[1], IntXor(s[2], s[1]), s[3], s[4]>>
      [] n = 4 -> <<rotl8(s[1], 32), s[2], s[3], s[4]>>
      [] n = 5 -> <<s[1], s[2], AddMasked(s[3], s[4]), s[4]>>
      [] n = 6 -> <<s[1], s[2], s[3], rotl8(s[4], 16)>>
      [] n = 7 -> <<s[1], s[2], s[3], IntXor(s[4], s[3])>>
      [] n = 8 -> <<s[1], s[2], AddMasked(s[3], s[2]), s[4]>>
      [] n = 9 -> <<s[1], rotl8(s[2], 17), s[3], s[4]>>
      [] n = 10 -> <<s[1], IntXor(s[2], s[3]), s[3], s[4]>>
      [] n = 11 -> <<s[1], s[2], rotl8(s[3], 32), s[4]>>
      [] n = 12 -> <<AddMasked(s[1], s[4]), s[2], s[3], s[4]>>
      [] n = 13 -> <<s[1], s[2], s[3], rotl8(s[4], 21)>>
      [] n = 14 -> <<s[1], s[2], s[3], IntXor(s[4], s[1])>>

SipLines == 14

\* The lines n..14 of _sipround in order.  Binding the intermediate state in a
\* singleton set makes TLC evaluate it once, before the next line reads it.
RECURSIVE SipFrom(_, _)
SipFrom(n, s) ==
    IF n > SipLines THEN s
    ELSE CHOOSE r \in {SipFrom(m, t) : m \in {n + 1}, t \in {SipLine(n, s)}} : TRUE

_sipround(s) == SipFrom(1, s)

\* line 207: v0 ^ v1 ^ v2 ^ v3
Fold(s) == IntXor(IntXor(IntXor(s[1], s[2]), s[3]), s[4])

\* hex(n): "0x" and the base-16 digits, most significant first, "0x0" for 0
HexChars ==
    <<"0", "1", "2", "3", "4", "5", "6", "7", "8", "9", "a", "b", "c", "d", "e", "f">>

Nibbles(n) ==
    [j \in 1..(2 * Len(n)) |->
        LET byte == n[Len(n) - ((j - 1) \div 2)]
        IN  IF j % 2 = 1 THEN byte \div 16 ELSE byte % 16]

HexDigits(n) ==
    IF Len(n) = 0 THEN <<"0">>
    ELSE LET nib == Nibbles(n)
             first == IF nib[1] = 0 THEN 2 ELSE 1
         IN  [j \in 1..(Len(nib) + 1 - first) |-> HexChars[nib[j + first - 1] + 1]]

HexPadded(n) ==
    <<"0", "x">> \o [j \in 1..16 |->
        HexChars[(IF j % 2 = 1 THEN Digit(n, 8 - ((j - 1) \div 2)) \div 16
                  ELSE Digit(n, 8 - ((j - 1) \div 2)) % 16) + 1]]

hex(n) == <<"0", "x">> \o HexDigits(n)

\* s[2:]
Slice2(s) == SubSeq(s, 3, Len(s))

\* line 66: hex(h)[2:] for the value h that get_hash() returned
hexdigest_of(h) == Slice2(hex(h))

----------------------------------------------------------------------------
(* Values of the state. *)

None == <<>>
Some(x) == <<x>>

\* line 50: self.hash is None
HashIsNoneAlways(h) == TRUE
HashIsNone(h) == h = None

\* lines 131 and 205: range(n) yields another value after i of them
RangeHasNextInclusive(i, n) == i <= n
RangeHasNext(i, n) == i < n

NoResult == [kind |-> "none", val |-> <<>>]
Raised == [kind |-> "OverflowError", val |-> <<>>]
Returned(kind, val) == [kind |-> kind, val |-> val]

LogEntry(op, word) == [op |-> op, word |-> word]

----------------------------------------------------------------------------
(* The inputs. *)

Zero == <<>>

\* src/test_siphash.py: the key and the message of setUp, the defaults of __init__
KATKey == FromBE(<<0, 1, 2, 3, 4, 5, 6, 7, 8, 9, 10, 11, 12, 13, 14, 15>>)
KATLen == 15
DefaultC == 2
DefaultD == 4

\* 2^128 - 1, the largest key, and 2^128, the smallest one that is too large
MaxKey == [i \in 1..16 |-> 255]
TooLargeKey == [i \in 1..17 |-> IF i = 17 THEN 1 ELSE 0]
\* 2^128 + the key of setUp, and a 20-byte key
LargerKey == KATKey \o <<0, 1>>
HugeKey == [i \in 1..20 |-> 255]

Keys == {Zero, KATKey, MaxKey, TooLargeKey, LargerKey, HugeKey}

\* The message of len bytes whose byte i (from 0) is (seed * (i + 1) + i) mod 256:
\* seed 0 is 00 01 02 ..., seed 255 is ff ff ff ...
Msg(len, seed) == SubSeq([i \in 1..len |-> (seed * i + i - 1) % 256], 1, len)

KATMessage == Msg(KATLen, 0)

Messages == {Msg(len, seed) : len \in {0, 7, 8, KATLen}, seed \in {0, 255}}

\* The callers that may share an instance; Init says which of them exist.
Callers == {1, 2}

CSet == {-1, 0, 1, DefaultC}
DSet == {-1, 0, 1, DefaultD}

WordSeeds == {0, 7, 128, 255}
WordMessages == {Msg(len, seed) : len \in 0..MaxMsgLen, seed \in WordSeeds}

HexBytes == {1, 10, 15, 16, 128, 171, 255}
HexInputs == {Zero} \cup {SubSeq([i \in 1..n |-> b], 1, n) : n \in 1..8, b \in HexBytes}

----------------------------------------------------------------------------
(* Initial states. *)

NoCall(ts) ==
    /\ threads = ts
    /\ pc = [t \in ts |-> "idle"]
    /\ method = [t \in ts |-> "none"]
    /\ calls = [t \in ts |-> 0]
    /\ k = [t \in ts |-> <<>>]
    /\ v = [t \in ts |-> <<>>]
    /\ words = [t \in ts |-> <<>>]
    /\ wi = [t \in ts |-> 0]
    /\ ri = [t \in ts |-> 0]
    /\ line = [t \in ts |-> 0]
    /\ result = [t \in ts |-> NoResult]
    /\ log = [t \in ts |-> <<>>]

NoWordsCall ==
    /\ wMsg = <<>>
    /\ wBuf = <<>>
    /\ wWords = <<>>
    /\ wDone = FALSE

NoHexCall ==
    /\ hxDigest = <<>>
    /\ hxStr = <<>>
    /\ hxDone = FALSE

NoDirectCall == NoWordsCall /\ NoHexCall

\* __init__ (lines 33-37), then one caller
Init ==
    /\ key \in Keys
    /\ message \in Messages
    /\ c \in CSet
    /\ d \in DSet
    /\ hash = None
    /\ entered = 0
    /\ writes = <<>>
    /\ NoCall({1})
    /\ NoDirectCall

----------------------------------------------------------------------------
(* get_hash and hexdigest, one line at a time, for caller t. *)

\* A caller invokes get_hash() or hexdigest(); hexdigest (line 66) calls get_hash.
Call(t, m) ==
    /\ t \in threads
    /\ pc[t] = "idle"
    /\ calls[t] < MaxCalls
    /\ pc' = [pc EXCEPT ![t] = "L50"]
    /\ method' = [method EXCEPT ![t] = m]
    /\ calls' = [calls EXCEPT ![t] = @ + 1]
    /\ result' = [result EXCEPT ![t] = NoResult]
    /\ k' = [k EXCEPT ![t] = <<>>]
    /\ v' = [v EXCEPT ![t] = <<>>]
    /\ words' = [words EXCEPT ![t] = <<>>]
    /\ wi' = [wi EXCEPT ![t] = 0]
    /\ ri' = [ri EXCEPT ![t] = 0]
    /\ line' = [line EXCEPT ![t] = 0]
    /\ log' = [log EXCEPT ![t] = <<>>]
    /\ UNCHANGED <<instance, hash, threads, entered, writes, direct>>

\* line 50: if self.hash is None
CheckCache(t) ==
    /\ t \in threads
    /\ pc[t] = "L50"
    /\ IF HashIsNone(hash)
       THEN /\ pc' = [pc EXCEPT ![t] = "L51"]
            /\ entered' = entered + 1
       ELSE /\ pc' = [pc EXCEPT ![t] = "L55"]
            /\ entered' = entered
    /\ UNCHANGED <<instance, hash, threads, method, calls, locals, result, writes, direct>>

\* line 51: k0, k1 = self._encode_key(self.key); the OverflowError of to_bytes
\* propagates out of get_hash (and out of hexdigest)
EncodeKey(t) ==
    /\ t \in threads
    /\ pc[t] = "L51"
    /\ IF _encode_key_raises(key)
       THEN /\ pc' = [pc EXCEPT ![t] = "idle"]
            /\ result' = [result EXCEPT ![t] = Raised]
            /\ k' = k
       ELSE /\ pc' = [pc EXCEPT ![t] = "L52"]
            /\ result' = result
            /\ k' = [k EXCEPT ![t] = _encode_key(key)]
    /\ UNCHANGED <<instance, hash, threads, method, calls, v, words, wi, ri, line,
                   log, entered, writes, direct>>

\* line 52: internal_state = self._initialise_internal_state(k0, k1)
InitState(t) ==
    /\ t \in threads
    /\ pc[t] = "L52"
    /\ v' = [v EXCEPT ![t] = _initialise_internal_state(k[t][1], k[t][2])]
    /\ pc' = [pc EXCEPT ![t] = "L126"]
    /\ UNCHANGED <<instance, hash, threads, method, calls, k, words, wi, ri, line,
                   result, log, entered, writes, direct>>

\* line 53 into _compress, line 126: words = self._message_to_words(message)
ParseWords(t) ==
    /\ t \in threads
    /\ pc[t] = "L126"
    /\ words' = [words EXCEPT ![t] = _message_to_words(message)]
    /\ wi' = [wi EXCEPT ![t] = 0]
    /\ pc' = [pc EXCEPT ![t] = "L129"]
    /\ UNCHANGED <<instance, hash, threads, method, calls, k, v, ri, line, result,
                   log, entered, writes, direct>>

\* line 129: for word in words; when exhausted, lines 135 and 53 hand the state
\* to _finalise (line 203)
NextWord(t) ==
    /\ t \in threads
    /\ pc[t] = "L129"
    /\ IF wi[t] < Len(words[t])
       THEN /\ wi' = [wi EXCEPT ![t] = @ + 1]
            /\ pc' = [pc EXCEPT ![t] = "L130"]
       ELSE /\ wi' = wi
            /\ pc' = [pc EXCEPT ![t] = "L204"]
    /\ UNCHANGED <<instance, hash, threads, method, calls, k, v, words, ri, line,
                   result, log, entered, writes, direct>>

\* line 130: v3 ^= word
InjectV3(t) ==
    /\ t \in threads
    /\ pc[t] = "L130"
    /\ v' = [v EXCEPT ![t] = [@ EXCEPT ![4] = IntXor(@, words[t][wi[t]])]]
    /\ ri' = [ri EXCEPT ![t] = 0]
    /\ log' = [log EXCEPT ![t] = Append(@, LogEntry("v3", words[t][wi[t]]))]
    /\ pc' = [pc EXCEPT ![t] = "L131"]
    /\ UNCHANGED <<instance, hash, threads, method, calls, k, words, wi, line,
                   result, entered, writes, direct>>

\* line 131: for _ in range(self.c)
CompressRound(t) ==
    /\ t \in threads
    /\ pc[t] = "L131"
    /\ IF RangeHasNext(ri[t], c)
       THEN /\ ri' = [ri EXCEPT ![t] = @ + 1]
            /\ line' = [line EXCEPT ![t] = 1]
            /\ pc' = [pc EXCEPT ![t] = "L132"]
       ELSE /\ ri' = ri
            /\ line' = line
            /\ pc' = [pc EXCEPT ![t] = "L133"]
    /\ UNCHANGED <<instance, hash, threads, method, calls, k, v, words, wi, result,
                   log, entered, writes, direct>>

\* lines 132 and 206: one line of _sipround (172-185); after line 185 the state
\* is returned and assigned, and control is back at the enclosing for
SipStep(t) ==
    /\ t \in threads
    /\ pc[t] \in {"L132", "L206"}
    /\ v' = [v EXCEPT ![t] = SipLine(line[t], @)]
    /\ IF line[t] = SipLines
       THEN /\ line' = [line EXCEPT ![t] = 0]
            /\ pc' = [pc EXCEPT ![t] = IF @ = "L132" THEN "L131" ELSE "L205"]
            /\ log' = [log EXCEPT ![t] =
                          IF pc[t] = "L132" THEN Append(@, LogEntry("sipround", <<>>))
                          ELSE @]
       ELSE /\ line' = [line EXCEPT ![t] = @ + 1]
            /\ pc' = pc
            /\ log' = log
    /\ UNCHANGED <<instance, hash, threads, method, calls, k, words, wi, ri, result,
                   entered, writes, direct>>

\* line 133: v0 ^= word
InjectV0(t) ==
    /\ t \in threads
    /\ pc[t] = "L133"
    /\ v' = [v EXCEPT ![t] = [@ EXCEPT ![1] = IntXor(@, words[t][wi[t]])]]
    /\ log' = [log EXCEPT ![t] = Append(@, LogEntry("v0", words[t][wi[t]]))]
    /\ pc' = [pc EXCEPT ![t] = "L129"]
    /\ UNCHANGED <<instance, hash, threads, method, calls, k, words, wi, ri, line,
                   result, entered, writes, direct>>

\* line 204: v2 ^= 0xff
FinalXor(t) ==
    /\ t \in threads
    /\ pc[t] = "L204"
    /\ v' = [v EXCEPT ![t] = [@ EXCEPT ![3] = IntXor(@, <<255>>)]]
    /\ ri' = [ri EXCEPT ![t] = 0]
    /\ pc' = [pc EXCEPT ![t] = "L205"]
    /\ UNCHANGED <<instance, hash, threads, method, calls, k, words, wi, line,
                   result, log, entered, writes, direct>>

\* line 205: for _ in range(self.d)
FinaliseRound(t) ==
    /\ t \in threads
    /\ pc[t] = "L205"
    /\ IF RangeHasNext(ri[t], d)
       THEN /\ ri' = [ri EXCEPT ![t] = @ + 1]
            /\ line' = [line EXCEPT ![t] = 1]
            /\ pc' = [pc EXCEPT ![t] = "L206"]
       ELSE /\ ri' = ri
            /\ line' = line
            /\ pc' = [pc EXCEPT ![t] = "L207"]
    /\ UNCHANGED <<instance, hash, threads, method, calls, k, v, words, wi, result,
                   log, entered, writes, direct>>

\* lines 207 and 54: self.hash = v0 ^ v1 ^ v2 ^ v3
StoreHash(t) ==
    /\ t \in threads
    /\ pc[t] = "L207"
    /\ hash' = Some(Fold(v[t]))
    /\ writes' = Append(writes, Fold(v[t]))
    /\ pc' = [pc EXCEPT ![t] = "L55"]
    /\ UNCHANGED <<instance, threads, method, calls, locals, result, entered, direct>>

\* line 55: return self.hash
Return(t) ==
    /\ t \in threads
    /\ pc[t] = "L55"
    /\ result' = [result EXCEPT ![t] = Returned("int", hash[1])]
    /\ pc' = [pc EXCEPT ![t] = IF method[t] = "hexdigest" THEN "L66" ELSE "idle"]
    /\ UNCHANGED <<instance, hash, threads, method, calls, locals, entered, writes,
                   direct>>

\* line 66: return hex(self.get_hash())[2:]
HexFormat(t) ==
    /\ t \in threads
    /\ pc[t] = "L66"
    /\ result' = [result EXCEPT ![t] = Returned("str", hexdigest_of(@.val))]
    /\ pc' = [pc EXCEPT ![t] = "idle"]
    /\ UNCHANGED <<instance, hash, threads, method, calls, locals, entered, writes,
                   direct>>

Step(t) ==
    \/ \E m \in {"get_hash", "hexdigest"} : Call(t, m)
    \/ CheckCache(t)
    \/ EncodeKey(t)
    \/ InitState(t)
    \/ ParseWords(t)
    \/ NextWord(t)
    \/ InjectV3(t)
    \/ CompressRound(t)
    \/ SipStep(t)
    \/ InjectV0(t)
    \/ FinalXor(t)
    \/ FinaliseRound(t)
    \/ StoreHash(t)
    \/ Return(t)
    \/ HexFormat(t)

Next == \E t \in Callers : Step(t)

Spec == Init /\ [][Next]_vars

----------------------------------------------------------------------------
(* Two callers sharing one instance: get_hash takes no lock, so their lines *)
(* interleave freely; only self.hash is shared.                            *)

InitConc ==
    /\ key = KATKey
    /\ message = Msg(0, 0)
    /\ c = 1
    /\ d = 1
    /\ hash = None
    /\ entered = 0
    /\ writes = <<>>
    /\ NoCall(Callers)
    /\ NoDirectCall

SpecConc == InitConc /\ [][Next]_vars

----------------------------------------------------------------------------
(* _message_to_words called on its own, as test_message_to_words does. *)

InitWords ==
    /\ key = KATKey
    /\ message = KATMessage
    /\ c = DefaultC
    /\ d = DefaultD
    /\ hash = None
    /\ entered = 0
    /\ writes = <<>>
    /\ NoCall({})
    /\ wMsg \in WordMessages
    /\ wBuf = <<>>
    /\ wWords = <<>>
    /\ wDone = FALSE
    /\ NoHexCall

\* lines 151-154
MessageToWords ==
    /\ ~wDone
    /\ wBuf' = PaddedMessage(wMsg)
    /\ wWords' = _message_to_words(wMsg)
    /\ wDone' = TRUE
    /\ UNCHANGED <<instance, hash, threads, pc, method, calls, locals, result,
                   entered, writes, wMsg, hxDigest, hxStr, hxDone>>

NextWords == MessageToWords

SpecWords == InitWords /\ [][NextWords]_vars

----------------------------------------------------------------------------
(* Line 66 on its own: hex(h)[2:] applied to a value get_hash() can return. *)
(* get_hash() returns a 64-bit value (C10); h is drawn from HexInputs.      *)

InitHex ==
    /\ key = KATKey
    /\ message = KATMessage
    /\ c = DefaultC
    /\ d = DefaultD
    /\ hash = None
    /\ entered = 0
    /\ writes = <<>>
    /\ NoCall({})
    /\ NoWordsCall
    /\ hxDigest \in HexInputs
    /\ hxStr = <<>>
    /\ hxDone = FALSE

\* line 66
HexdigestOf ==
    /\ ~hxDone
    /\ hxStr' = hexdigest_of(hxDigest)
    /\ hxDone' = TRUE
    /\ UNCHANGED <<instance, hash, threads, pc, method, calls, locals, result,
                   entered, writes, wMsg, wBuf, wWords, wDone, hxDigest>>

NextHex == HexdigestOf

SpecHex == InitHex /\ [][NextHex]_vars

----------------------------------------------------------------------------
(* The pipeline as the specification defines it (sections 4.1-4.8), on     *)
(* 64-bit words: every result is reduced modulo 2^64.                      *)

Mod64(x) == Norm(SubSeq(x, 1, Min(8, Len(x))))

\* 4.1: byteSwap64 reverses the byte order of a 64-bit value
RefByteSwap64(x) == Norm([i \in 1..8 |-> Digit(x, 9 - i)])

\* 4.1: (value << bits) | (value >> (64 - bits)), both shifts masked to 64 bits
RefRotateLeft64(x, bits) ==
    IntOr(Mod64(IntShl(x, bits)), Mod64(IntShr(x, 64 - bits)))

RefAdd(a, b) == Mod64(IntAdd(a, b))

\* 4.2: the high and the low 64 bits of the key, each byte-swapped
RefEncodeKey(kk) ==
    <<RefByteSwap64(IntShr(kk, 64)), RefByteSwap64(Mod64(kk))>>

\* 4.3
RefInitState(k0, k1) ==
    <<IntXor(k0, FromBE(<<\h73, \h6f, \h6d, \h65, \h70, \h73, \h65, \h75>>)),
      IntXor(k1, FromBE(<<\h64, \h6f, \h72, \h61, \h6e, \h64, \h6f, \h6d>>)),
      IntXor(k0, FromBE(<<\h6c, \h79, \h67, \h65, \h6e, \h65, \h72, \h61>>)),
      IntXor(k1, FromBE(<<\h74, \h65, \h64, \h62, \h79, \h74, \h65, \h73>>))>>

\* 4.4: pad = (len + 1) mod 8; message ++ pad zero bytes ++ the length byte;
\* consecutive 8-byte little-endian words
RefMessageToWords(m) ==
    LET pad == (Len(m) + 1) % 8
        buf == m \o [i \in 1..pad |-> 0] \o <<Len(m) % 256>>
    IN  [j \in 1..((Len(buf) + 7) \div 8) |->
            Norm([i \in 1..8 |-> Digit(buf, 8 * (j - 1) + i)])]

\* 4.5: the four rows of SipRound, each applied to the state the previous left
RefRow1(s) ==
    LET a == RefAdd(s[1], s[2])
        b == IntXor(RefRotateLeft64(s[2], 13), a)
    IN  <<RefRotateLeft64(a, 32), b, s[3], s[4]>>

RefRow2(s) ==
    LET cc == RefAdd(s[3], s[4])
    IN  <<s[1], s[2], cc, IntXor(RefRotateLeft64(s[4], 16), cc)>>

RefRow3(s) ==
    LET cc == RefAdd(s[3], s[2])
        b == IntXor(RefRotateLeft64(s[2], 17), cc)
    IN  <<s[1], b, RefRotateLeft64(cc, 32), s[4]>>

RefRow4(s) ==
    LET a == RefAdd(s[1], s[4])
    IN  <<a, s[2], s[3], IntXor(RefRotateLeft64(s[4], 21), a)>>

RefSipRound(s) ==
    CHOOSE r \in {RefRow4(s3) : s3 \in {RefRow3(s2) : s2 \in
                     {RefRow2(s1) : s1 \in {RefRow1(s0) : s0 \in {s}}}}} : TRUE

\* repeat n times: state = sipRound(state)
RECURSIVE RefRounds(_, _)
RefRounds(n, s) ==
    IF n <= 0 THEN s
    ELSE CHOOSE r \in {RefRounds(m, t) : m \in {n - 1}, t \in {RefSipRound(s)}} : TRUE

\* 4.6: one word absorbed
RefAbsorb(w, s, cc) ==
    CHOOSE r \in {<<IntXor(t[1], w), t[2], t[3], t[4]>> :
                  t \in {RefRounds(cc, <<s[1], s[2], s[3], IntXor(s[4], w)>>)}} : TRUE

\* 4.6: the words from index j on, in order
RECURSIVE RefCompressFrom(_, _, _, _)
RefCompressFrom(ws, j, s, cc) ==
    IF j > Len(ws) THEN s
    ELSE CHOOSE r \in {RefCompressFrom(ws, jj, t, cc) :
                       jj \in {j + 1}, t \in {RefAbsorb(ws[j], s, cc)}} : TRUE

RefCompress(ws, s, cc) == RefCompressFrom(ws, 1, s, cc)

\* 4.7
RefFinalize(s, dd) ==
    CHOOSE r \in {IntXor(IntXor(IntXor(t[1], t[2]), t[3]), t[4]) :
                  t \in {RefRounds(dd, <<s[1], s[2], IntXor(s[3], <<255>>), s[4]>>)}} : TRUE

\* 4.8
RefComputeDigest(kk, m, cc, dd) ==
    CHOOSE r \in {RefFinalize(RefCompress(ws, RefInitState(ks[1], ks[2]), cc), dd) :
                  ks \in {RefEncodeKey(kk)}, ws \in {RefMessageToWords(m)}} : TRUE

\* section 8 and test_get_hash: 0xa129ca6149be45e5
KATDigest == FromBE(<<\ha1, \h29, \hca, \h61, \h49, \hbe, \h45, \he5>>)

IsKAT == key = KATKey /\ message = KATMessage /\ c = DefaultC /\ d = DefaultD

----------------------------------------------------------------------------

\* C2: with a single caller, after any sequence of get_hash() and hexdigest()
\* calls self.hash has been assigned at most once, it holds that one value from
\* then on, the compute branch has been entered at most once (for a key below
\* 2^128), and every call returns the stored value.
C2_ComputedAtMostOnce ==
    /\ Len(writes) <= 1
    /\ (hash = None) <=> (writes = <<>>)
    /\ hash # None => hash = Some(writes[1])
    /\ Len(key) <= 16 => entered <= 1
    /\ \A t \in threads :
          result[t].kind = "int" => (writes # <<>> /\ result[t].val = writes[1])

C2_Witness ==
    /\ calls[1] = MaxCalls
    /\ pc[1] = "idle"
    /\ result[1].kind = "int"
    /\ entered = 1
    /\ Len(writes) = 1

\* C3: when callers invoke get_hash() concurrently on an uncomputed instance,
\* the compute branch is entered at most once under every interleaving.
C3_ConcurrentComputeOnce == entered <= 1

\* C4: an instance constructed with c <= 0 or d <= 0 never returns a digest.
C4_NonPositiveRoundsRejected ==
    (c <= 0 \/ d <= 0) => \A t \in threads : result[t].kind # "int"

\* C5: with a key of 2^128 or more every call raises instead of returning a
\* digest, self.hash stays None and nothing is ever cached.
C5_OversizedKeyRaises ==
    Len(key) > 16 =>
        /\ hash = None
        /\ writes = <<>>
        /\ \A t \in threads :
              /\ result[t].kind \in {"none", "OverflowError"}
              /\ (pc[t] = "idle" /\ calls[t] > 0) => result[t] = Raised

C5_Witness ==
    /\ Len(key) > 16
    /\ calls[1] = MaxCalls
    /\ pc[1] = "idle"
    /\ result[1] = Raised
    /\ hash = None

\* The value of a lowercase hexadecimal digit (16 for any other character).
HexValue(ch) ==
    CASE ch = "0" -> 0 [] ch = "1" -> 1 [] ch = "2" -> 2 [] ch = "3" -> 3
      [] ch = "4" -> 4 [] ch = "5" -> 5 [] ch = "6" -> 6 [] ch = "7" -> 7
      [] ch = "8" -> 8 [] ch = "9" -> 9 [] ch = "a" -> 10 [] ch = "b" -> 11
      [] ch = "c" -> 12 [] ch = "d" -> 13 [] ch = "e" -> 14 [] ch = "f" -> 15
      [] OTHER -> 16

\* The int a string of hexadecimal digits denotes.
ParseHex(str) ==
    LET n == Len(str)
        nib(j) == IF j <= n THEN HexValue(str[n + 1 - j]) ELSE 0
    IN  Norm([i \in 1..((n + 1) \div 2) |-> nib(2 * i - 1) + 16 * nib(2 * i)])

Below2p60(h) == Len(h) < 8 \/ (Len(h) = 8 /\ h[8] < 16)

\* C6: hexdigest() is the lowercase hexadecimal encoding of the digest, with no
\* radix prefix and no leading zeros: shorter than 16 characters when the digest
\* is below 2^60, and "0" when the digest is 0.
IsLowercaseHexOf(str, h) ==
    /\ Len(str) >= 1
    /\ Len(str) <= 16
    /\ \A i \in 1..Len(str) : HexValue(str[i]) < 16
    /\ ParseHex(str) = h
    /\ Len(str) > 1 => str[1] # "0"
    /\ Below2p60(h) => Len(str) < 16
    /\ h = Zero => str = <<"0">>

C6_HexdigestIsLowercaseHex ==
    /\ hxDone => IsLowercaseHexOf(hxStr, hxDigest)
    /\ \A t \in threads :
          result[t].kind = "str" => IsLowercaseHexOf(result[t].val, hash[1])

\* a digest in [2^56, 2^60): 15 characters, where zero-padding would give 16
C6_Witness ==
    /\ hxDone
    /\ Len(hxDigest) = 8
    /\ hxDigest[8] < 16
    /\ Len(hxStr) = 15

\* C7: for every message length the padded buffer has a length that is a
\* multiple of 8, the length byte is the most significant byte of the final
\* word, and there are floor(len / 8) + 1 words.
C7_PaddedBufferMultipleOf8 ==
    wDone =>
        /\ Len(wBuf) % 8 = 0
        /\ Len(wWords) = (Len(wMsg) \div 8) + 1
        /\ Digit(wWords[Len(wWords)], 8) = Len(wMsg) % 256

\* C8: the empty message gives exactly one word, 0; a message whose length is a
\* multiple of 8 gives length / 8 + 1 words, the first length / 8 of which are
\* its consecutive 8-byte little-endian words.
C8_WordsOfWholeBlocks ==
    wDone =>
        /\ Len(wMsg) = 0 => wWords = <<Zero>>
        /\ Len(wMsg) % 8 = 0 =>
              /\ Len(wWords) = (Len(wMsg) \div 8) + 1
              /\ \A j \in 1..(Len(wMsg) \div 8) :
                    /\ Len(wWords[j]) <= 8
                    /\ \A i \in 1..8 : Digit(wWords[j], i) = wMsg[8 * (j - 1) + i]

C8_Witness ==
    /\ wDone
    /\ Len(wMsg) = 16
    /\ wMsg[1] # wMsg[8]
    /\ Len(wWords) = 3

\* What _compress does for the words ws with cc rounds per word, in order.
ExpectedLog(ws, cc) ==
    [p \in 1..(Len(ws) * (cc + 2)) |->
        LET j == ((p - 1) \div (cc + 2)) + 1
            o == (p - 1) % (cc + 2)
        IN  IF o = 0 THEN LogEntry("v3", ws[j])
            ELSE IF o = cc + 1 THEN LogEntry("v0", ws[j])
            ELSE LogEntry("sipround", <<>>)]

IsPrefix(a, b) == Len(a) <= Len(b) /\ a = SubSeq(b, 1, Len(a))

Count(op, l) == Cardinality({p \in 1..Len(l) : l[p].op = op})

\* C9: _compress absorbs the words in message order; for each word it does
\* v3 ^= m, then exactly c SipRounds, then v0 ^= m; so n words take c * n
\* SipRounds and no word is injected before the previous word's v0 injection.
C9_CompressOrder ==
    \A t \in threads :
        c >= 0 =>
            /\ IsPrefix(log[t], ExpectedLog(words[t], c))
            /\ pc[t] \in {"L204", "L205", "L206", "L207"} =>
                  /\ log[t] = ExpectedLog(words[t], c)
                  /\ Count("sipround", log[t]) = c * Len(words[t])
                  /\ words[t] = _message_to_words(message)

C9_Witness ==
    /\ pc[1] = "L204"
    /\ c = 2
    /\ Len(words[1]) = 2
    /\ Len(log[1]) = 8
    /\ log[1][5] = LogEntry("v3", words[1][2])

\* a < b, for ints
RECURSIVE LessFrom(_, _, _)
LessFrom(a, b, i) ==
    IF i = 0 THEN FALSE
    ELSE IF a[i] # b[i] THEN a[i] < b[i]
    ELSE LessFrom(a, b, i - 1)

Less(a, b) == Len(a) < Len(b) \/ (Len(a) = Len(b) /\ LessFrom(a, b, Len(a)))

IsU64(x) == Len(x) <= 8 /\ \A i \in 1..Len(x) : x[i] \in 0..255

\* C10: for every key below 2^128 and every message, each of v0..v3 is in
\* [0, 2^64) after initialisation, after every injection and after every line
\* of _sipround, and so is the digest get_hash() stores and returns.
C10_StateWordsFitIn64Bits ==
    /\ hash # None => IsU64(hash[1])
    /\ \A t \in threads :
          /\ \A i \in 1..Len(v[t]) : IsU64(v[t][i])
          /\ \A i \in 1..Len(k[t]) : IsU64(k[t][i])
          /\ \A i \in 1..Len(words[t]) : IsU64(words[t][i])
          /\ result[t].kind = "int" => IsU64(result[t].val)

\* line 172 has just run and the sum wrapped: v0 + v1 mod 2^64 is below v1
C10_Witness ==
    /\ pc[1] = "L132"
    /\ line[1] = 2
    /\ Less(v[1][1], v[1][2])
    /\ IsU64(v[1][1])

====
